---- MODULE Spec2Model ----
(***************************************************************************)
(* A/B-test inference engine of Project-AB-Testing                         *)
(* (statistical_analysis.py, data_generator.py): group aggregation, the    *)
(* chi-square contingency test, the Wald interval for a difference of two  *)
(* proportions, and the Monte-Carlo power simulation, together with the    *)
(* comprehensive_analysis pipeline that chains them.                       *)
(*                                                                         *)
(* Numbers are exact rationals [k, n, d] (k = "fin") extended by the IEEE  *)
(* specials the numpy scalars of the program can take ("inf", "ninf",      *)
(* "nan").                                                                 *)
(***************************************************************************)
EXTENDS Integers, Sequences, FiniteSets, TLC

VARIABLES
    df,      \* the loaded dataset: a sequence of records [group, clicked]
    rng,     \* state of the process-wide numpy generator (np.random)
    ret,     \* the last call of a dataset function and what it gave back
    test,    \* the last run of stats.chi2_contingency: table and outcome
    ci,      \* the last call of calculate_confidence_interval
    sim,     \* manual_power_analysis: parameters and loop state
    last,    \* the last finished power simulation: its parameters and result,
             \* and the result of the run before it if that had the same parameters
    stage,   \* position of comprehensive_analysis
    bundle,  \* the results comprehensive_analysis has gathered so far
    runner,  \* Project-User-Behavior-Analysis main.py: its loop over the scripts
    report,  \* Project-AB-Testing main.py, step 5: the report and the console summary
    cleaned  \* data_cleaner.py: a call of clean_data, its argument and its result

\* the state the inference engine's actions leave alone
restVars == <<runner, report, cleaned>>

vars == <<df, rng, ret, test, ci, sim, last, stage, bundle, runner, report, cleaned>>

(***************************************************************************)
(* Bounds of the model.                                                    *)
(***************************************************************************)
MaxRecords == 3
MaxSample == 2
MaxSims == 2
MaxTotal == 2
SqrtScale == 1000

(***************************************************************************)
(* Exact arithmetic.                                                       *)
(***************************************************************************)
Abs(x) == IF x < 0 THEN -x ELSE x

RECURSIVE GCD(_, _)
GCD(a, b) == IF b = 0 THEN a ELSE GCD(b, a % b)

\* the rational n/d in lowest terms with a positive denominator (d # 0)
Q(n, d) ==
    LET g == GCD(Abs(n), Abs(d))
        s == IF d < 0 THEN -1 ELSE 1
    IN  [k |-> "fin", n |-> s * (n \div g), d |-> s * (d \div g)]

Num(n) == [k |-> "fin", n |-> n, d |-> 1]
NaN == [k |-> "nan", n |-> 0, d |-> 1]
PosInf == [k |-> "inf", n |-> 0, d |-> 1]
NegInf == [k |-> "ninf", n |-> 0, d |-> 1]

\* IEEE negative zero (0 / -1 in Python and numpy): the zero with a negative
\* denominator; every other finite value has a positive one
NegZero == [k |-> "fin", n |-> 0, d |-> -1]

IsFin(x) == x.k = "fin"
IsNaN(x) == x.k = "nan"
IsZero(x) == x.k = "fin" /\ x.n = 0

\* the denominator without the sign of a zero
Den(x) == Abs(x.d)

\* the IEEE sign bit (not used on nan)
SignBit(x) == x.k = "ninf" \/ (x.k = "fin" /\ (x.n < 0 \/ (x.n = 0 /\ x.d < 0)))

\* the zero of the given sign
Zero(negative) == IF negative THEN NegZero ELSE Num(0)

\* the infinity of the given sign
Inf(negative) == IF negative THEN NegInf ELSE PosInf

\* sign of a value as -1, 0, 1 (not used on nan)
Sgn(x) ==
    CASE x.k = "inf" -> 1
      [] x.k = "ninf" -> -1
      [] OTHER -> IF x.n > 0 THEN 1 ELSE IF x.n < 0 THEN -1 ELSE 0

Neg(x) ==
    CASE x.k = "fin" -> IF x.n = 0 THEN Zero(~SignBit(x)) ELSE [x EXCEPT !.n = -x.n]
      [] x.k = "inf" -> NegInf
      [] x.k = "ninf" -> PosInf
      [] OTHER -> NaN

\* IEEE addition: a zero sum is -0 only when both terms are -0
Add(x, y) ==
    CASE IsNaN(x) \/ IsNaN(y) -> NaN
      [] IsFin(x) /\ IsFin(y) ->
            LET r == Q(x.n * Den(y) + y.n * Den(x), Den(x) * Den(y))
            IN  IF r.n = 0
                THEN Zero(IsZero(x) /\ IsZero(y) /\ SignBit(x) /\ SignBit(y))
                ELSE r
      [] IsFin(x) -> y
      [] IsFin(y) -> x
      [] OTHER -> IF x.k = y.k THEN x ELSE NaN

Sub(x, y) == Add(x, Neg(y))

\* IEEE multiplication: the sign of the product is the exclusive or of the signs
Mul(x, y) ==
    CASE IsNaN(x) \/ IsNaN(y) -> NaN
      [] IsFin(x) /\ IsFin(y) ->
            IF x.n = 0 \/ y.n = 0 THEN Zero(SignBit(x) # SignBit(y))
            ELSE Q(x.n * y.n, Den(x) * Den(y))
      [] OTHER -> IF Sgn(x) * Sgn(y) = 0 THEN NaN ELSE Inf(SignBit(x) # SignBit(y))

\* IEEE division as numpy scalars do it: x/0 is an infinity or nan, never an
\* error; the sign of the quotient is the exclusive or of the signs
NpDiv(x, y) ==
    CASE IsNaN(x) \/ IsNaN(y) -> NaN
      [] IsZero(y) -> IF IsZero(x) THEN NaN ELSE Inf(SignBit(x) # SignBit(y))
      [] IsFin(x) /\ IsFin(y) ->
            IF x.n = 0 THEN Zero(SignBit(x) # SignBit(y))
            ELSE Q(x.n * Den(y), Den(x) * y.n)
      [] IsFin(x) -> Zero(SignBit(x) # SignBit(y))
      [] IsFin(y) -> Inf(SignBit(x) # SignBit(y))
      [] OTHER -> NaN

\* x < y; every comparison with nan is false, the two zeros are equal
Lt(x, y) ==
    CASE IsNaN(x) \/ IsNaN(y) -> FALSE
      [] IsFin(x) /\ IsFin(y) -> x.n * Den(y) < y.n * Den(x)
      [] x.k = "ninf" -> y.k # "ninf"
      [] y.k = "inf" -> x.k # "inf"
      [] OTHER -> FALSE

Le(x, y) == ~IsNaN(x) /\ ~IsNaN(y) /\ ~Lt(y, x)

AbsV(x) ==
    CASE IsNaN(x) -> NaN
      [] x.k \in {"inf", "ninf"} -> PosInf
      [] OTHER -> [k |-> "fin", n |-> Abs(x.n), d |-> Den(x)]

\* np.minimum: nan if either is nan
MinV(x, y) == IF IsNaN(x) \/ IsNaN(y) THEN NaN ELSE IF Lt(y, x) THEN y ELSE x

\* np.sign as a value (0.0 for either zero)
SignV(x) == IF IsNaN(x) THEN NaN ELSE Num(Sgn(x))

\* largest r in lo..hi with r*r <= v (lo*lo <= v < (hi+1)*(hi+1))
RECURSIVE ISqrtIn(_, _, _)
ISqrtIn(v, lo, hi) ==
    IF lo = hi THEN lo
    ELSE LET mid == (lo + hi + 1) \div 2
         IN  IF mid * mid <= v THEN ISqrtIn(v, mid, hi) ELSE ISqrtIn(v, lo, mid - 1)

\* np.sqrt, to 1/SqrtScale: nan below zero
Sqrt(x) ==
    CASE IsNaN(x) \/ x.k = "ninf" -> NaN
      [] x.k = "inf" -> PosInf
      [] x.n < 0 -> NaN
      [] x.n = 0 -> x
      [] OTHER -> Q(ISqrtIn((x.n * SqrtScale * SqrtScale) \div x.d, 0, 4 * SqrtScale),
                    SqrtScale)

RECURSIVE SumSeq(_)
SumSeq(s) == IF s = <<>> THEN 0 ELSE Head(s) + SumSeq(Tail(s))

RECURSIVE SumV(_)
SumV(s) == IF s = <<>> THEN Num(0) ELSE Add(Head(s), SumV(Tail(s)))

(***************************************************************************)
(* The dataset: records with a group label and a binary outcome.           *)
(***************************************************************************)
GroupOrder == <<"control", "treatment">>
ClickedOrder == <<0, 1>>
Groups == {GroupOrder[i] : i \in 1..Len(GroupOrder)}
Records == [group : Groups, clicked : {0, 1}]

Datasets == UNION {[1..n -> Records] : n \in 0..MaxRecords}

\* df[df[col] == v]
Rows(d, col, v) == SelectSeq(d, LAMBDA r : r[col] = v)

\* the distinct values of a column, in sorted order
Present(d, col, order) ==
    SelectSeq(order, LAMBDA v : \E i \in 1..Len(d) : d[i][col] = v)

Clicks(d) == SumSeq([i \in 1..Len(d) |-> d[i].clicked])

RoundDecimals == 4

RECURSIVE Pow10(_)
Pow10(e) == IF e = 0 THEN 1 ELSE 10 * Pow10(e - 1)

\* mutant: truncation instead of rounding
RoundDown(x, decimals) == Q((x.n * Pow10(decimals)) \div x.d, Pow10(decimals))

\* np.round(x, decimals) of a finite x: to the nearest, ties to even
Round(x, decimals) ==
    LET s == Pow10(decimals)
        f == (x.n * s) \div x.d
        rem2 == 2 * ((x.n * s) - f * x.d)
        r == IF rem2 > x.d \/ (rem2 = x.d /\ f % 2 = 1) THEN Q(f + 1, s) ELSE Q(f, s)
    IN  IF r.n = 0 THEN Zero(SignBit(x)) ELSE r

\* calculate_click_rates: per group count, sum and mean of clicked, rounded
CalculateClickRates(d) ==
    LET present == Present(d, "group", GroupOrder)
    IN  [g \in {present[i] : i \in 1..Len(present)} |->
            LET rows == Rows(d, "group", g)
            IN  [count |-> Len(rows),
                 clicks |-> Clicks(rows),
                 ctr |-> Round(Q(Clicks(rows), Len(rows)), RoundDecimals)]]

\* pd.crosstab(df['group'], df['clicked']): one row per group present, one
\* column per outcome present
Crosstab(d) ==
    LET rs == Present(d, "group", GroupOrder)
        cs == Present(d, "clicked", ClickedOrder)
    IN  [i \in 1..Len(rs) |->
            [j \in 1..Len(cs) |->
                Len(SelectSeq(d, LAMBDA r : r.group = rs[i] /\ r.clicked = cs[j]))]]

(***************************************************************************)
(* stats.chi2_contingency(observed) with its defaults (correction=True,    *)
(* lambda_=None).                                                          *)
(***************************************************************************)
NRows(t) == Len(t)
NCols(t) == IF Len(t) = 0 THEN 0 ELSE Len(t[1])
RowTotal(t, i) == SumSeq(t[i])
ColTotal(t, j) == SumSeq([i \in 1..Len(t) |-> t[i][j]])
GrandTotal(t) == SumSeq([i \in 1..Len(t) |-> RowTotal(t, i)])

\* expected_freq: outer product of the margins over the grand total
ExpectedFreq(t) ==
    [i \in 1..NRows(t) |->
        [j \in 1..NCols(t) |->
            NpDiv(Num(RowTotal(t, i) * ColTotal(t, j)), Num(GrandTotal(t)))]]

Half == Q(1, 2)

\* the size of the continuity correction for a cell with expected - observed = diff
CorrectionMagnitude(diff) == MinV(Half, AbsV(diff))

\* Yates' correction: each observed count moves towards its expected frequency
Corrected(obs, expected) ==
    LET diff == Sub(expected, obs)
    IN  Add(obs, Mul(CorrectionMagnitude(diff), SignV(diff)))

\* power_divergence with the Pearson statistic: sum of (obs - exp)^2 / exp
PearsonSum(t, expected, correction) ==
    SumV([c \in 1..(NRows(t) * NCols(t)) |->
        LET i == ((c - 1) \div NCols(t)) + 1
            j == ((c - 1) % NCols(t)) + 1
            o == IF correction THEN Corrected(Num(t[i][j]), expected[i][j])
                 ELSE Num(t[i][j])
            e == Sub(o, expected[i][j])
        IN  NpDiv(Mul(e, e), expected[i][j])])

\* p-values are kept as the point of the chi-square survival function they are
\* taken at: p = chi2.sf(sf, dof), and p = 1.0 when dof = 0
PValue(x, dof) == [sf |-> x, dof |-> dof]

Raised(error) ==
    [status |-> "raised", error |-> error, chi2 |-> NaN,
     p_value |-> PValue(NaN, 0), dof |-> 0, expected |-> <<>>]

Chi2Contingency(observed) ==
    LET r == NRows(observed)
        c == NCols(observed)
        expected == ExpectedFreq(observed)
        dof == r * c - (r + c) + 2 - 1
    IN  IF \E i \in 1..r : \E j \in 1..c : observed[i][j] < 0
        THEN Raised("ValueError")
        ELSE IF r * c = 0
        THEN Raised("ValueError")
        ELSE IF \E i \in 1..r : \E j \in 1..c : IsZero(expected[i][j])
        THEN Raised("ValueError")
        ELSE IF dof = 0
        THEN [status |-> "returned", error |-> "", chi2 |-> Num(0),
              p_value |-> PValue(Num(0), 0), dof |-> 0, expected |-> expected]
        ELSE LET chi2 == PearsonSum(observed, expected, dof = 1)
             IN  [status |-> "returned", error |-> "", chi2 |-> chi2,
                  p_value |-> PValue(chi2, dof), dof |-> dof, expected |-> expected]

\* chi_square_test(df)
ChiSquareTest(d) == Chi2Contingency(Crosstab(d))

\* upper critical values of the chi-square distribution with one degree of
\* freedom, chi2.isf(alpha, 1), to four decimals
Chi2Isf(alpha) ==
    CASE alpha = Q(1, 100) -> Q(66349, 10000)
      [] alpha = Q(1, 20) -> Q(38415, 10000)
      [] alpha = Q(1, 10) -> Q(27055, 10000)
      [] alpha = Q(1, 2) -> Q(4549, 10000)

\* p < alpha, for alpha in (0, 1): the survival function is strictly decreasing
PLess(p, alpha) ==
    IF p.dof = 0 THEN Lt(Num(1), alpha)
    ELSE IF IsNaN(p.sf) THEN FALSE
    ELSE Lt(Chi2Isf(alpha), p.sf)

(***************************************************************************)
(* calculate_confidence_interval.  kind tells the arithmetic of the call:  *)
(* "py" for plain Python numbers (a division by zero raises), "np" for     *)
(* numpy scalars, as comprehensive_analysis passes (Series.sum() is a      *)
(* numpy integer; a division by zero gives inf or nan).                    *)
(***************************************************************************)
Kinds == {"py", "np"}

\* norm.ppf(q), to four decimals at the quantiles in use
NormPpf(q) ==
    CASE IsNaN(q) -> NaN
      [] Lt(q, Num(0)) \/ Lt(Num(1), q) -> NaN
      [] IsZero(q) -> NegInf
      [] q = Num(1) -> PosInf
      [] q = Q(1, 2) -> Num(0)
      [] q = Q(3, 4) -> Q(6745, 10000)
      [] q = Q(19, 20) -> Q(16449, 10000)
      [] q = Q(39, 40) -> Q(19600, 10000)
      [] q = Q(199, 200) -> Q(25758, 10000)

CIRaised(error) ==
    [status |-> "raised", error |-> error, difference |-> NaN, ci_lower |-> NaN,
     ci_upper |-> NaN, margin_of_error |-> NaN, relative_improvement |-> NaN]

\* the point estimate of the interval: treatment rate minus control rate
Difference(p_a, p_b) == Sub(p_b, p_a)

\* mutant: the margin added instead of subtracted
CiLowerAdded(diff, margin_of_error) == Add(diff, margin_of_error)

\* the lower end of the interval
CiLower(diff, margin_of_error) == Sub(diff, margin_of_error)

\* the upper end of the interval
CiUpper(diff, margin_of_error) == Add(diff, margin_of_error)

CalculateConfidenceInterval(clicks_a, total_a, clicks_b, total_b, alpha, kind) ==
    IF kind = "py" /\ (total_a = 0 \/ total_b = 0)
    THEN CIRaised("ZeroDivisionError")
    ELSE
    LET p_a == NpDiv(Num(clicks_a), Num(total_a))
        p_b == NpDiv(Num(clicks_b), Num(total_b))
        diff == Difference(p_a, p_b)
        se == Sqrt(Add(NpDiv(Mul(p_a, Sub(Num(1), p_a)), Num(total_a)),
                       NpDiv(Mul(p_b, Sub(Num(1), p_b)), Num(total_b))))
        z_score == NormPpf(Sub(Num(1), NpDiv(alpha, Num(2))))
        margin_of_error == Mul(z_score, se)
    IN  IF kind = "py" /\ IsZero(p_a)
        THEN CIRaised("ZeroDivisionError")
        ELSE [status |-> "returned", error |-> "",
              difference |-> diff,
              ci_lower |-> CiLower(diff, margin_of_error),
              ci_upper |-> CiUpper(diff, margin_of_error),
              margin_of_error |-> margin_of_error,
              relative_improvement |-> NpDiv(Sub(p_b, p_a), p_a)]

\* the default of the alpha parameter
DefaultAlpha == Q(1, 20)

(***************************************************************************)
(* The process-wide generator np.random.  Its state is what it will give   *)
(* next.  A process starts it from the system's entropy, so nothing is     *)
(* known of its variates; np.random.seed(42) fixes them.  The seeded       *)
(* variates below are those of the generator (MT19937 started by           *)
(* init_genrand(42), 53-bit doubles), in units of 1/VariateScale, rounded  *)
(* down.                                                                   *)
(***************************************************************************)
DataSeed == 42

VariateScale == 100000000

\* the first doubles after np.random.seed(42)
SeededDoubles ==
    <<37454011, 95071430, 73199394, 59865848, 15601864, 15599452, 5808361, 86617614, 60111501, 70807257, 2058449, 96990985>>

\* the doubles that follow the timestamps of generate_ab_test_data: randint
\* reads 32-bit words and rejects those out of range, so the place in the
\* stream depends on the number of users
DoublesAfterData(n_users) ==
    CASE n_users = 0 ->
            <<37454011, 95071430, 73199394, 59865848, 15601864, 15599452, 5808361, 86617614, 60111501, 70807257, 2058449, 96990985>>
      [] n_users = 1 ->
            <<59865848, 15601864, 15599452, 5808361, 86617614, 60111501, 70807257, 2058449, 96990985, 83244264, 21233911, 18182496>>
      [] n_users = 2 ->
            <<45924889, 33370861, 14286681, 65088847, 5641157, 72199877, 93855270, 77876, 99221155, 61748150, 61165316, 706630>>
      [] n_users = 3 ->
            <<5641157, 72199877, 93855270, 77876, 99221155, 61748150, 61165316, 706630, 2306242, 52477466, 39986097, 4666566>>
      [] n_users = 4 ->
            <<77876, 99221155, 61748150, 61165316, 706630, 2306242, 52477466, 39986097, 4666566, 97375551, 23277134, 9060643>>
      [] n_users = 5 ->
            <<61165316, 706630, 2306242, 52477466, 39986097, 4666566, 97375551, 23277134, 9060643, 61838600, 38246199, 98323088>>
      [] n_users = 6 ->
            <<52477466, 39986097, 4666566, 97375551, 23277134, 9060643, 61838600, 38246199, 98323088, 46676289, 85994040, 68030753>>

\* the generator started from entropy, or followed past what is tabulated
Unknown == [known |-> FALSE, users |-> 0, pos |-> 0]

\* the generator after generate_ab_test_data made n_users records
SeededAfterData(n_users) == [known |-> TRUE, users |-> n_users, pos |-> 0]

\* variates an unknown generator may give: one between any two neighbouring
\* thresholds of the draws made within the bounds
Variates == {Q(1, 10), Q(3, 10), Q(3, 5), Q(17, 20), Q(99, 100), Q(9999, 10000)}

\* random_sample: the next double in [0, 1) and the generator afterwards
NextDouble(s) ==
    IF s.known /\ s.pos < Len(DoublesAfterData(s.users))
    THEN {[u |-> Q(DoublesAfterData(s.users)[s.pos + 1], VariateScale),
           rng |-> [s EXCEPT !.pos = @ + 1]]}
    ELSE {[u |-> v, rng |-> Unknown] : v \in Variates}

\* a/b < c/d for a, c >= 0 and b, d > 0, by Euclid's steps (no products)
RECURSIVE FracLt(_, _, _, _)
FracLt(a, b, c, d) ==
    IF a \div b # c \div d THEN a \div b < c \div d
    ELSE IF c % d = 0 THEN FALSE
    ELSE IF a % b = 0 THEN TRUE
    ELSE FracLt(d, c % d, b, a % b)

RECURSIVE Pow(_, _)
Pow(x, e) == IF e = 0 THEN 1 ELSE x * Pow(x, e - 1)

RECURSIVE Choose(_, _)
Choose(n, j) == IF j = 0 THEN 1 ELSE (Choose(n, j - 1) * (n - j + 1)) \div j

\* numerator over b^n of P(X <= k) for X binomial(n, a/b)
RECURSIVE CdfNum(_, _, _, _)
CdfNum(n, a, b, k) ==
    IF k < 0 THEN 0
    ELSE Choose(n, k) * Pow(a, k) * Pow(b - a, n - k) + CdfNum(n, a, b, k - 1)

\* binomial by inversion (p <= 0.5): the number of k below n whose cumulative
\* probability the variate exceeds
Inversion(u, n, p) ==
    Cardinality({k \in 0..(n - 1) : FracLt(CdfNum(n, p.n, p.d, k), Pow(p.d, n), u.n, u.d)})

\* the binomial(n, p) count the variate u gives, 0 <= p <= 1: inversion with p
\* up to 0.5, n minus an inversion with 1 - p above
BinomialOf(u, n, p) ==
    IF Lt(Q(1, 2), p) THEN n - Inversion(u, n, Sub(Num(1), p)) ELSE Inversion(u, n, p)

\* np.random.binomial(n, p) from state s: the counts it may give, each with the
\* generator afterwards
Binomial(s, n, p) ==
    {[value |-> BinomialOf(d.u, n, p), rng |-> d.rng] : d \in NextDouble(s)}

DefaultControlCtr == Q(2, 25)
DefaultTreatmentCtr == Q(21, 200)

\* generate_ab_test_data: seeds the generator, draws the n_users groups (one
\* double each, control below 0.5), then one click per user at its group's
\* rate, then two integers per user for the timestamp (user_id and timestamp
\* are not carried in the model's records)
GenerateAbTestData(control_ctr, treatment_ctr, n_users) ==
    LET u(i) == Q(SeededDoubles[i], VariateScale)
        group(i) == IF Lt(u(i), Q(1, 2)) THEN "control" ELSE "treatment"
        click(i) == BinomialOf(u(n_users + i), 1,
                               IF group(i) = "control" THEN control_ctr
                               ELSE treatment_ctr)
    IN  [df |-> [i \in 1..n_users |-> [group |-> group(i), clicked |-> click(i)]],
         rng |-> SeededAfterData(n_users)]

(***************************************************************************)
(* State.  ret, test, ci and bundle describe the top-level call in         *)
(* progress (or the last one finished); a new call starts them afresh.     *)
(***************************************************************************)
NoCall == [op |-> "none", status |-> "none", error |-> "", out |-> <<>>]
NoTest == [by |-> "none", table |-> <<>>, out |-> Raised("")]
NoCI ==
    [by |-> "none", clicks_a |-> 0, total_a |-> 0, clicks_b |-> 0, total_b |-> 0,
     alpha |-> DefaultAlpha, kind |-> "py", out |-> CIRaised("")]
NoResult == [power |-> NaN, n_simulations |-> -1, significant_detections |-> -1]
NoLast == [params |-> <<>>, result |-> NoResult, repeat_of |-> NoResult]
IdleSim ==
    [active |-> FALSE, caller |-> "none", control_ctr |-> Num(0),
     treatment_ctr |-> Num(0), sample_size |-> 0, alpha |-> DefaultAlpha,
     n_simulations |-> 0, i |-> 0, significant_results |-> 0, expect |-> NoResult]
NoBundle ==
    [have |-> {}, click_rates |-> <<>>, control_clicks |-> 0, control_total |-> 0,
     treatment_clicks |-> 0, treatment_total |-> 0, chi_square_test |-> Raised(""),
     confidence_intervals |-> CIRaised(""), power_analysis |-> NoResult,
     effect_size |-> <<>>]

Params(m) ==
    <<m.control_ctr, m.treatment_ctr, m.sample_size, m.alpha, m.n_simulations>>

\* main.py of Project-User-Behavior-Analysis before its first statement
NoRun == [pc |-> "start", i |-> 1, launched |-> <<>>, exits |-> <<>>, log |-> <<>>]

\* no report generated, no summary printed
NoReport ==
    [pc |-> "start", p_value |-> NaN, difference |-> NaN, flag |-> "", advice |-> "",
     console_flag |-> "", console_advice |-> ""]

\* clean_data not called
NoCleaned ==
    [called |-> FALSE, arg |-> <<>>, arg_after |-> <<>>, out |-> <<>>,
     twice |-> FALSE, again |-> <<>>]

Init ==
    /\ df = <<>>
    /\ rng = Unknown
    /\ ret = NoCall
    /\ test = NoTest
    /\ ci = NoCI
    /\ sim = IdleSim
    /\ last = NoLast
    /\ stage = "start"
    /\ bundle = NoBundle
    /\ runner = NoRun
    /\ report = NoReport
    /\ cleaned = NoCleaned

Ready == stage = "idle" /\ ~sim.active

(***************************************************************************)
(* Getting the dataset.                                                    *)
(***************************************************************************)
\* load_data: the records of a CSV file, whatever it holds
LoadData(d) ==
    /\ stage = "start"
    /\ ~sim.active
    /\ df' = d
    /\ stage' = "idle"
    /\ UNCHANGED <<rng, ret, test, ci, sim, last, bundle>>
    /\ UNCHANGED restVars

\* main.py step 2: generate_ab_test_data() with its default rates; the
\* default of 10000 users is scaled down to MaxRecords
GenerateData ==
    /\ stage = "start"
    /\ ~sim.active
    /\ LET g == GenerateAbTestData(DefaultControlCtr, DefaultTreatmentCtr, MaxRecords)
       IN  df' = g.df /\ rng' = g.rng
    /\ stage' = "idle"
    /\ UNCHANGED <<ret, test, ci, sim, last, bundle>>
    /\ UNCHANGED restVars

(***************************************************************************)
(* Direct calls of the dataset functions.                                  *)
(***************************************************************************)
CallClickRates ==
    /\ Ready
    /\ ret' = [op |-> "calculate_click_rates", status |-> "returned", error |-> "",
               out |-> CalculateClickRates(df)]
    /\ test' = NoTest /\ ci' = NoCI /\ bundle' = NoBundle
    /\ UNCHANGED <<df, rng, sim, last, stage>>
    /\ UNCHANGED restVars

CallChiSquareTest ==
    /\ Ready
    /\ LET out == ChiSquareTest(df)
       IN  /\ test' = [by |-> "chi_square_test", table |-> Crosstab(df), out |-> out]
           /\ ret' = [op |-> "chi_square_test", status |-> out.status,
                      error |-> out.error, out |-> out]
    /\ ci' = NoCI /\ bundle' = NoBundle
    /\ UNCHANGED <<df, rng, sim, last, stage>>
    /\ UNCHANGED restVars

(***************************************************************************)
(* calculate_confidence_interval called on its own.                        *)
(***************************************************************************)
AlphaInputs == {Num(-1), Num(0), Q(1, 100), Q(1, 20), Q(1, 2), Num(1), Num(2), Num(3)}

\* one call by a caller that holds no dataset
CallConfidenceInterval(clicks_a, total_a, clicks_b, total_b, alpha, kind) ==
    /\ ~sim.active
    /\ stage = "start"
    /\ ci.by = "none"
    /\ ci' = [by |-> "direct", clicks_a |-> clicks_a, total_a |-> total_a,
              clicks_b |-> clicks_b, total_b |-> total_b, alpha |-> alpha,
              kind |-> kind,
              out |-> CalculateConfidenceInterval(clicks_a, total_a, clicks_b,
                                                  total_b, alpha, kind)]
    /\ UNCHANGED <<df, rng, ret, test, sim, last, stage, bundle>>
    /\ UNCHANGED restVars

(***************************************************************************)
(* manual_power_analysis: the call, one loop iteration, the return.        *)
(***************************************************************************)
Rates == {Num(0), DefaultControlCtr, DefaultTreatmentCtr, Q(1, 2), Num(1)}
Alphas == {Q(1, 20), Q(1, 2)}

\* line 73: the parameters are bound and the counter is zeroed
StartSim(caller, control_ctr, treatment_ctr, sample_size, alpha, n_simulations) ==
    LET m == [active |-> TRUE, caller |-> caller, control_ctr |-> control_ctr,
              treatment_ctr |-> treatment_ctr, sample_size |-> sample_size,
              alpha |-> alpha, n_simulations |-> n_simulations, i |-> 0,
              significant_results |-> 0, expect |-> NoResult]
    IN  [m EXCEPT !.expect = IF last.params = Params(m) THEN last.result ELSE NoResult]

ManualPowerAnalysis(control_ctr, treatment_ctr, sample_size, alpha, n_simulations) ==
    /\ ~sim.active
    /\ stage \in {"start", "idle"}
    /\ sim' = StartSim("direct", control_ctr, treatment_ctr, sample_size, alpha,
                       n_simulations)
    /\ ret' = [op |-> "manual_power_analysis", status |-> "running", error |-> "",
               out |-> NoResult]
    /\ last' = NoLast
    /\ test' = NoTest /\ ci' = NoCI /\ bundle' = NoBundle
    /\ UNCHANGED <<df, rng, stage>>
    /\ UNCHANGED restVars

\* lines 86-89
TrialTable(sample_size, control_clicks, treatment_clicks) ==
    <<<<control_clicks, sample_size - control_clicks>>,
      <<treatment_clicks, sample_size - treatment_clicks>>>>

\* mutant: the comparison the wrong way round
DetectedNot(p_value, alpha) == ~PLess(p_value, alpha)

\* lines 95-96: whether a trial's p-value counts as a detection
Detected(p_value, alpha) == PLess(p_value, alpha)

\* lines 95-96
Counted(significant_results, p_value, alpha) ==
    IF Detected(p_value, alpha) THEN significant_results + 1 ELSE significant_results

\* an exception leaves the call in progress (and the pipeline, if it made the call)
Abort(op, error) ==
    [op |-> op, status |-> "raised", error |-> error, out |-> NoResult]

\* lines 75-96: one iteration of the loop
PowerTrial ==
    /\ sim.active
    /\ sim.i < sim.n_simulations
    /\ \E c \in Binomial(rng, sim.sample_size, sim.control_ctr) :
       \E t \in Binomial(c.rng, sim.sample_size, sim.treatment_ctr) :
       LET table == TrialTable(sim.sample_size, c.value, t.value)
           out == Chi2Contingency(table)
       IN  /\ rng' = t.rng
           /\ test' = [by |-> "manual_power_analysis", table |-> table, out |-> out]
           /\ IF out.status = "raised"
              THEN /\ sim' = IdleSim
                   /\ ret' = Abort(IF sim.caller = "pipeline"
                                   THEN "comprehensive_analysis"
                                   ELSE "manual_power_analysis", out.error)
                   /\ stage' = IF sim.caller = "pipeline" THEN "idle" ELSE stage
              ELSE /\ sim' = [sim EXCEPT !.i = @ + 1,
                                         !.significant_results =
                                             Counted(@, out.p_value, sim.alpha)]
                   /\ UNCHANGED <<ret, stage>>
    /\ UNCHANGED <<df, ci, last, bundle>>
    /\ UNCHANGED restVars

\* lines 99-105
PowerResult(significant_results, n_simulations) ==
    [power |-> Q(significant_results, n_simulations),
     n_simulations |-> n_simulations,
     significant_detections |-> significant_results]

PowerReturn ==
    /\ sim.active
    /\ sim.i = sim.n_simulations
    /\ IF sim.n_simulations = 0
       THEN /\ ret' = Abort("manual_power_analysis", "ZeroDivisionError")
            /\ UNCHANGED <<last, bundle, stage>>
       ELSE LET res == PowerResult(sim.significant_results, sim.n_simulations)
            IN  /\ last' = [params |-> Params(sim), result |-> res,
                             repeat_of |-> sim.expect]
                /\ IF sim.caller = "pipeline"
                   THEN /\ bundle' = [bundle EXCEPT !.have = @ \cup {"power_analysis"},
                                                    !.power_analysis = res]
                        /\ stage' = "effect"
                        /\ UNCHANGED ret
                   ELSE /\ ret' = [op |-> "manual_power_analysis",
                                   status |-> "returned", error |-> "", out |-> res]
                        /\ UNCHANGED <<bundle, stage>>
    /\ sim' = IdleSim
    /\ UNCHANGED <<df, rng, test, ci>>
    /\ UNCHANGED restVars

(***************************************************************************)
(* comprehensive_analysis, statement by statement.                         *)
(***************************************************************************)
\* n_simulations of the pipeline's power analysis (5000 at line 141), scaled down
PipelineSims == 2

Min(a, b) == IF a < b THEN a ELSE b

\* calculate_effect_size: |2 (asin sqrt(treatment) - asin sqrt(control))|, kept
\* as the pair of rates it is taken at
CalculateEffectSize(control_ctr, treatment_ctr) ==
    [cohen_h_of |-> <<control_ctr, treatment_ctr>>]

\* lines 116-125
CA_ClickRates ==
    /\ Ready
    /\ LET control_data == Rows(df, "group", "control")
           treatment_data == Rows(df, "group", "treatment")
       IN  bundle' = [NoBundle EXCEPT
                        !.have = {"click_rates"},
                        !.click_rates = CalculateClickRates(df),
                        !.control_clicks = Clicks(control_data),
                        !.control_total = Len(control_data),
                        !.treatment_clicks = Clicks(treatment_data),
                        !.treatment_total = Len(treatment_data)]
    /\ ret' = [op |-> "comprehensive_analysis", status |-> "running", error |-> "",
               out |-> NoResult]
    /\ test' = NoTest /\ ci' = NoCI
    /\ stage' = "chi2"
    /\ UNCHANGED <<df, rng, sim, last>>
    /\ UNCHANGED restVars

\* line 128
CA_ChiSquare ==
    /\ stage = "chi2"
    /\ LET out == ChiSquareTest(df)
       IN  /\ test' = [by |-> "chi_square_test", table |-> Crosstab(df), out |-> out]
           /\ IF out.status = "raised"
              THEN /\ ret' = Abort("comprehensive_analysis", out.error)
                   /\ stage' = "idle"
                   /\ UNCHANGED bundle
              ELSE /\ bundle' = [bundle EXCEPT !.have = @ \cup {"chi_square_test"},
                                               !.chi_square_test = out]
                   /\ stage' = "ci"
                   /\ UNCHANGED ret
    /\ UNCHANGED <<df, rng, ci, sim, last>>
    /\ UNCHANGED restVars

\* lines 131-134
CA_ConfidenceInterval ==
    /\ stage = "ci"
    /\ LET out == CalculateConfidenceInterval(bundle.control_clicks,
                      bundle.control_total, bundle.treatment_clicks,
                      bundle.treatment_total, DefaultAlpha, "np")
       IN  /\ ci' = [by |-> "comprehensive_analysis",
                     clicks_a |-> bundle.control_clicks,
                     total_a |-> bundle.control_total,
                     clicks_b |-> bundle.treatment_clicks,
                     total_b |-> bundle.treatment_total,
                     alpha |-> DefaultAlpha, kind |-> "np", out |-> out]
           /\ IF out.status = "raised"
              THEN /\ ret' = Abort("comprehensive_analysis", out.error)
                   /\ stage' = "idle"
                   /\ UNCHANGED bundle
              ELSE /\ bundle' = [bundle EXCEPT
                                    !.have = @ \cup {"confidence_intervals"},
                                    !.confidence_intervals = out]
                   /\ stage' = "power"
                   /\ UNCHANGED ret
    /\ UNCHANGED <<df, rng, test, sim, last>>
    /\ UNCHANGED restVars

\* lines 137-142: click_rates.loc[...] raises KeyError for a group not present
CA_Power ==
    /\ stage = "power"
    /\ IF {"control", "treatment"} \subseteq DOMAIN bundle.click_rates
       THEN /\ sim' = StartSim("pipeline", bundle.click_rates["control"].ctr,
                               bundle.click_rates["treatment"].ctr,
                               Min(bundle.control_total, bundle.treatment_total),
                               DefaultAlpha, PipelineSims)
            /\ last' = NoLast
            /\ stage' = "simulating"
            /\ UNCHANGED ret
       ELSE /\ ret' = Abort("comprehensive_analysis", "KeyError")
            /\ stage' = "idle"
            /\ UNCHANGED <<sim, last>>
    /\ UNCHANGED <<df, rng, test, ci, bundle>>
    /\ UNCHANGED restVars

\* lines 145-163
CA_Finish ==
    /\ stage = "effect"
    /\ LET out == [bundle EXCEPT
                      !.have = @ \cup {"effect_size", "sample_sizes"},
                      !.effect_size = CalculateEffectSize(
                          bundle.click_rates["control"].ctr,
                          bundle.click_rates["treatment"].ctr)]
       IN  /\ bundle' = out
           /\ ret' = [op |-> "comprehensive_analysis", status |-> "returned",
                      error |-> "", out |-> out]
    /\ stage' = "idle"
    /\ UNCHANGED <<df, rng, test, ci, sim, last>>
    /\ UNCHANGED restVars

(***************************************************************************)
(* Specifications.  Spec: a dataset is loaded or generated and analysed.   *)
(* SpecCI: calculate_confidence_interval on arbitrary arguments.           *)
(* SpecPower: power simulations called one after another.                  *)
(***************************************************************************)
\* statistical_analysis.py as a script: the file it loads is any dataset
LoadAnyData == stage = "start" /\ \E d \in Datasets : LoadData(d)

\* a caller's call of calculate_confidence_interval
CallCI ==
    /\ ci.by = "none"
    /\ \E clicks_a, clicks_b \in 0..MaxTotal, total_a, total_b \in -1..MaxTotal,
          alpha \in AlphaInputs, kind \in Kinds :
            CallConfidenceInterval(clicks_a, total_a, clicks_b, total_b, alpha, kind)

\* a caller's call of manual_power_analysis
CallPower ==
    /\ ~sim.active
    /\ \E control_ctr, treatment_ctr \in Rates, sample_size \in 1..MaxSample,
          alpha \in Alphas, n_simulations \in 0..MaxSims :
            ManualPowerAnalysis(control_ctr, treatment_ctr, sample_size, alpha,
                                n_simulations)

Next ==
    \/ LoadAnyData
    \/ GenerateData
    \/ CallClickRates
    \/ CallChiSquareTest
    \/ CA_ClickRates
    \/ CA_ChiSquare
    \/ CA_ConfidenceInterval
    \/ CA_Power
    \/ PowerTrial
    \/ PowerReturn
    \/ CA_Finish

Spec == Init /\ [][Next]_vars

NextCI == CallCI

SpecCI == Init /\ [][NextCI]_vars

NextPower ==
    \/ GenerateData
    \/ CallPower
    \/ PowerTrial
    \/ PowerReturn

SpecPower == Init /\ [][NextPower]_vars

(***************************************************************************)
(* Properties.                                                             *)
(***************************************************************************)
\* a 2x2 table whose row and column totals are all positive
PositiveMargins(t) ==
    /\ NRows(t) = 2 /\ NCols(t) = 2
    /\ \A i \in 1..2 : RowTotal(t, i) > 0 /\ ColTotal(t, i) > 0

Tested == test.by # "none"

\* (observed - expected)^2 / expected for one cell, expected = row * col / total
PearsonTerm(t, i, j) ==
    LET e == Q(RowTotal(t, i) * ColTotal(t, j), GrandTotal(t))
        dev == Sub(Num(t[i][j]), e)
    IN  NpDiv(Mul(dev, dev), e)

FourCells(F(_, _, _), t) ==
    Add(Add(F(t, 1, 1), F(t, 1, 2)), Add(F(t, 2, 1), F(t, 2, 2)))

\* C1: on every 2x2 table with positive margins the test returns one
\* degree of freedom and the uncorrected Pearson sum over the four cells.
C1_UncorrectedPearson ==
    (Tested /\ PositiveMargins(test.table)) =>
        /\ test.out.status = "returned"
        /\ test.out.dof = 1
        /\ test.out.chi2 = FourCells(PearsonTerm, test.table)

\* a*d - b*c of a 2x2 table
CrossDiff(t) == t[1][1] * t[2][2] - t[1][2] * t[2][1]

\* C2: the statistic of a 2x2 table with positive margins is
\* non-negative, and is 0 exactly when the rows are proportional (a*d = b*c).
C2_ZeroIffProportional ==
    (Tested /\ PositiveMargins(test.table) /\ test.out.status = "returned") =>
        /\ Le(Num(0), test.out.chi2)
        /\ (test.out.chi2 = Num(0)) <=> (CrossDiff(test.table) = 0)

\* the invariant part of C3: the counters of the loop, and the result's ranges
C3_Counters ==
    /\ 0 <= sim.significant_results
    /\ sim.significant_results <= sim.i
    /\ sim.i <= sim.n_simulations
    /\ (ret.op = "manual_power_analysis" /\ ret.status = "returned") =>
          /\ Le(Num(0), ret.out.power) /\ Le(ret.out.power, Num(1))
          /\ 0 <= ret.out.significant_detections
          /\ ret.out.significant_detections <= ret.out.n_simulations

\* the step part of C3: an iteration counts one trial, and one detection exactly
\* when that trial's p-value is below alpha; the call returns only after
\* n_simulations trials, with the counts and their quotient
C3_Steps ==
    /\ (sim.active /\ sim'.active /\ sim' # sim) =>
          /\ sim'.i = sim.i + 1
          /\ test'.by = "manual_power_analysis"
          /\ test'.out.status = "returned"
          /\ sim'.significant_results - sim.significant_results =
                 IF PLess(test'.out.p_value, sim.alpha) THEN 1 ELSE 0
    /\ (sim.active /\ sim.caller = "direct" /\ ret'.status = "returned") =>
          /\ sim.i = sim.n_simulations
          /\ ret'.out.n_simulations = sim.n_simulations
          /\ ret'.out.significant_detections = sim.significant_results
          /\ Mul(ret'.out.power, Num(sim.n_simulations)) = Num(sim.significant_results)

\* C3: manual_power_analysis returns after exactly n_simulations trials, a trial
\* is counted as detected exactly when its p-value is below alpha, the result
\* carries the counts and power = detections / n_simulations, and
\* 0 <= detections <= trials so far <= n_simulations, 0 <= power <= 1 throughout.
C3_PowerCounts == []C3_Counters /\ [][C3_Steps]_vars

\* a simulation has returned with some trials detected and some not
C3_Witness ==
    /\ ret.op = "manual_power_analysis"
    /\ ret.status = "returned"
    /\ 0 < ret.out.significant_detections
    /\ ret.out.significant_detections < ret.out.n_simulations

CICalled == ci.by # "none"

\* C4: calculate_confidence_interval raises a division-by-zero error whenever
\* the control rate clicks_a / total_a is 0, however it is called, and never
\* returns an infinite or nan relative_improvement; with a positive control rate
\* relative_improvement is (p_b - p_a) / p_a.
C4_ZeroControlRateRaises ==
    (CICalled /\ ci.total_a > 0 /\ ci.total_b > 0) =>
        /\ (ci.clicks_a = 0) =>
              (ci.out.status = "raised" /\ ci.out.error = "ZeroDivisionError")
        /\ (ci.out.status = "returned") => IsFin(ci.out.relative_improvement)
        /\ (ci.clicks_a > 0 /\ ci.out.status = "returned") =>
              ci.out.relative_improvement =
                  Q((ci.clicks_b * ci.total_a - ci.clicks_a * ci.total_b) * ci.total_a,
                    ci.total_a * ci.total_b * ci.clicks_a)

\* the number of records of the dataset with this group and outcome
Cell(g, o) == Cardinality({i \in 1..Len(df) : df[i].group = g /\ df[i].clicked = o})

\* some row or column total of the full group-by-outcome table is zero
DegenerateData ==
    \/ \E g \in Groups : Cell(g, 0) + Cell(g, 1) = 0
    \/ \E o \in {0, 1} : Cell("control", o) + Cell("treatment", o) = 0

\* some row or column total of a trial's table is zero
DegenerateTable(t) ==
    \/ \E i \in 1..NRows(t) : RowTotal(t, i) = 0
    \/ \E j \in 1..NCols(t) : ColTotal(t, j) = 0

\* C5: the significance test fails, and returns no statistic or p-value,
\* whenever a row or column total of the 2x2 group-by-outcome table is zero.
C5_DegenerateTableRaises ==
    /\ (test.by = "chi_square_test" /\ DegenerateData) => test.out.status = "raised"
    /\ (test.by = "manual_power_analysis" /\ DegenerateTable(test.table)) =>
          test.out.status = "raised"

GroupsPresent == {df[i].group : i \in 1..Len(df)}

\* C6: group aggregation fails, before any statistic is computed or returned,
\* when the dataset has fewer than two distinct group labels (so that the control
\* or the treatment group has no observations).
C6_MissingGroupRaises ==
    (Cardinality(GroupsPresent) < 2) =>
        /\ (ret.op = "calculate_click_rates") => ret.status = "raised"
        /\ (ret.op = "comprehensive_analysis") =>
              (ret.status # "returned" /\ bundle.have = {})

ValidAlpha(alpha) == Lt(Num(0), alpha) /\ Lt(alpha, Num(1))

\* C7: calculate_confidence_interval fails, and returns no interval, whenever
\* total_a <= 0 or total_b <= 0 or alpha is not strictly between 0 and 1.
C7_InvalidInputRaises ==
    (CICalled /\ (ci.total_a <= 0 \/ ci.total_b <= 0 \/ ~ValidAlpha(ci.alpha))) =>
        ci.out.status = "raised"

ClickRatesReturned == ret.op = "calculate_click_rates" /\ ret.status = "returned"

\* what C8 says of count and clicks, and the ranges
C8_Counts ==
    /\ DOMAIN ret.out = GroupsPresent
    /\ \A g \in DOMAIN ret.out :
          /\ ret.out[g].count = Cell(g, 0) + Cell(g, 1)
          /\ ret.out[g].clicks = Cell(g, 1)
          /\ 0 <= ret.out[g].clicks /\ ret.out[g].clicks <= ret.out[g].count
          /\ Le(Num(0), ret.out[g].ctr) /\ Le(ret.out[g].ctr, Num(1))
    /\ Cell("control", 0) + Cell("control", 1) + Cell("treatment", 0)
          + Cell("treatment", 1) = Len(df)

\* C8 as stated: count, clicks and the ranges as above, and ctr = clicks / count.
C8_ExactRate ==
    ClickRatesReturned =>
        /\ C8_Counts
        /\ \A g \in DOMAIN ret.out :
              ret.out[g].ctr = Q(ret.out[g].clicks, ret.out[g].count)

\* C8 amended: count, clicks and the ranges as above, and ctr is clicks / count
\* rounded to four decimals: a multiple of 0.0001 within 0.00005 of the quotient.
C8_RoundedRate ==
    ClickRatesReturned =>
        /\ C8_Counts
        /\ \A g \in DOMAIN ret.out :
              /\ 10000 % ret.out[g].ctr.d = 0
              /\ Le(AbsV(Sub(ret.out[g].ctr, Q(ret.out[g].clicks, ret.out[g].count))),
                    Q(1, 20000))

\* click rates returned for a group whose rate has more than four decimals
C8_Witness ==
    /\ ClickRatesReturned
    /\ \E g \in DOMAIN ret.out :
          ret.out[g].ctr # Q(ret.out[g].clicks, ret.out[g].count)

\* C9: two runs of manual_power_analysis with identical parameters return
\* identical results, whatever ran before them.
C9_SameParametersSameResult ==
    (last.repeat_of # NoResult) => last.result = last.repeat_of

ValidCIInput ==
    /\ ci.total_a > 0 /\ ci.total_b > 0
    /\ ci.clicks_a <= ci.total_a /\ ci.clicks_b <= ci.total_b
    /\ ValidAlpha(ci.alpha)

\* C10: on valid inputs the interval returned has difference = p_b - p_a and is
\* symmetric around it: ci_upper - difference = difference - ci_lower =
\* margin_of_error >= 0, so ci_lower <= difference <= ci_upper.
C10_SymmetricInterval ==
    (CICalled /\ ValidCIInput /\ ci.out.status = "returned") =>
        /\ ci.out.difference =
               Q(ci.clicks_b * ci.total_a - ci.clicks_a * ci.total_b,
                 ci.total_a * ci.total_b)
        /\ Sub(ci.out.ci_upper, ci.out.difference) = ci.out.margin_of_error
        /\ Sub(ci.out.difference, ci.out.ci_lower) = ci.out.margin_of_error
        /\ Le(Num(0), ci.out.margin_of_error)
        /\ Le(ci.out.ci_lower, ci.out.difference)
        /\ Le(ci.out.difference, ci.out.ci_upper)

\* an interval of positive width returned on valid inputs
C10_Witness ==
    /\ CICalled /\ ValidCIInput /\ ci.out.status = "returned"
    /\ Lt(Num(0), ci.out.margin_of_error)
    /\ ci.out.difference # Num(0)

(***************************************************************************)
(* Project-User-Behavior-Analysis, main.py: the scripts run one after      *)
(* another, each as a child process.                                       *)
(***************************************************************************)
Scripts == <<"data_generator.py", "data_cleaner.py", "analyzer.py">>

\* a child's return code: 0..255 from exit, negative when a signal killed it
\* (-9: SIGKILL)
MaxExitCode == 255
ExitCodes == {-9} \cup 0..MaxExitCode

Banner == "All steps completed successfully!"

engineVars == <<df, rng, ret, test, ci, sim, last, stage, bundle>>

\* line 22
R_Start ==
    /\ runner.pc = "start"
    /\ runner' = [runner EXCEPT !.pc = "next", !.log = Append(@, "Starting")]
    /\ UNCHANGED <<engineVars, report, cleaned>>

\* lines 27-28 and 8-10: the loop takes the next script, run_script prints its header
R_Header ==
    /\ runner.pc = "next"
    /\ runner.i <= Len(Scripts)
    /\ runner' = [runner EXCEPT !.pc = "spawn", !.log = Append(@, "Running")]
    /\ UNCHANGED <<engineVars, report, cleaned>>

\* line 14: subprocess.run starts the child
R_Launch ==
    /\ runner.pc = "spawn"
    /\ runner' = [runner EXCEPT !.pc = "wait",
                                !.launched = Append(@, Scripts[runner.i])]
    /\ UNCHANGED <<engineVars, report, cleaned>>

\* line 14: the child cannot be started (OSError), which run_script does not catch
R_LaunchFails ==
    /\ runner.pc = "spawn"
    /\ runner' = [runner EXCEPT !.pc = "crashed"]
    /\ UNCHANGED <<engineVars, report, cleaned>>

\* mutant: the loop goes on after a failure
AfterFailureContinue(i) == [pc |-> "next", i |-> i + 1]

\* lines 28-30: run_script returned False, the loop breaks
AfterFailure(i) == [pc |-> "done", i |-> i]

\* lines 14-19 and 28-30: the child exits; check=True turns a nonzero return
\* code into CalledProcessError, which run_script answers with False
R_Exit(code) ==
    /\ runner.pc = "wait"
    /\ IF code = 0
       THEN runner' = [runner EXCEPT !.pc = "next", !.i = @ + 1,
                                     !.exits = Append(@, code),
                                     !.log = Append(@, "completed")]
       ELSE runner' = [runner EXCEPT !.pc = AfterFailure(runner.i).pc,
                                     !.i = AfterFailure(runner.i).i,
                                     !.exits = Append(@, code),
                                     !.log = @ \o <<"Error running", "Stopping">>]
    /\ UNCHANGED <<engineVars, report, cleaned>>

\* lines 31-34: the else branch of the for loop, taken when the loop was not broken
R_AllDone ==
    /\ runner.pc = "next"
    /\ runner.i > Len(Scripts)
    /\ runner' = [runner EXCEPT !.pc = "done", !.log = Append(@, Banner)]
    /\ UNCHANGED <<engineVars, report, cleaned>>

NextRunner ==
    \/ R_Start
    \/ R_Header
    \/ R_Launch
    \/ R_LaunchFails
    \/ \E code \in ExitCodes : R_Exit(code)
    \/ R_AllDone

SpecRunner == Init /\ [][NextRunner]_vars

BannerPrinted == \E k \in 1..Len(runner.log) : runner.log[k] = Banner
AllSucceeded ==
    /\ Len(runner.exits) = Len(Scripts)
    /\ \A k \in 1..Len(runner.exits) : runner.exits[k] = 0
SomeFailed == \E k \in 1..Len(runner.exits) : runner.exits[k] # 0

\* the state part of C11: the scripts launched are the first ones of the list, in
\* its order, each launched after all those before it exited with 0; the banner
\* is printed only after three successes, and always by the end of such a run
C11_Order ==
    /\ Len(runner.launched) <= Len(Scripts)
    /\ \A k \in 1..Len(runner.launched) : runner.launched[k] = Scripts[k]
    /\ Len(runner.exits) <= Len(runner.launched)
    /\ Len(runner.launched) <= Len(runner.exits) + 1
    /\ \A k \in 1..(Len(runner.launched) - 1) : runner.exits[k] = 0
    /\ BannerPrinted => AllSucceeded
    /\ (runner.pc = "done") => (BannerPrinted <=> AllSucceeded)
    /\ AllSucceeded => runner.pc \in {"next", "done"}

\* the step part of C11: after a failure no script is launched
C11_NoLaunchAfterFailure == SomeFailed => runner'.launched = runner.launched

\* C11: the runner launches data_generator.py, data_cleaner.py, analyzer.py in
\* this order, each only after the one before exited successfully; after a
\* failure no later script is launched; the banner is printed if and only if
\* all three succeeded.
C11_SequentialRunner == []C11_Order /\ [][C11_NoLaunchAfterFailure]_vars

\* the run has ended at a failure of the second script, without the banner
C11_Witness ==
    /\ runner.pc = "done"
    /\ Len(runner.launched) = 2
    /\ runner.exits[1] = 0 /\ runner.exits[2] # 0
    /\ ~BannerPrinted

\* the table of the latest trial of a power simulation
TrialRun == test.by = "manual_power_analysis"

\* C12: for valid inputs (rates in [0,1] with 0 and 1 included, sample_size and
\* n_simulations positive, alpha in (0,1)) every simulated table has
\* non-negative cells and both row totals equal to sample_size, and no trial's
\* draw ends the simulation with an exception.
C12_NoTrialAborts ==
    TrialRun =>
        /\ \A i \in 1..2, j \in 1..2 : test.table[i][j] >= 0
        /\ RowTotal(test.table, 1) = RowTotal(test.table, 2)
        /\ sim.active => RowTotal(test.table, 1) = sim.sample_size
        /\ test.out.status # "raised"

(***************************************************************************)
(* Project-AB-Testing, main.py: the report and the console summary made    *)
(* from the result bundle.  The flag "yes" stands for the report's word    *)
(* for a significant result, "no" for the other; the verdicts are          *)
(* "recommend" and "keep".                                                 *)
(***************************************************************************)
\* lines 39, 52, 118, 122: the literal 0.05
ReportAlpha == Q(1, 20)

\* p-values and differences of the bundles followed: each side of 0.05 and of 0,
\* and the boundaries themselves
PValues ==
    {Num(0), Q(1, 1000), Q(1, 25), Q(49, 1000), Q(1, 20), Q(51, 1000), Q(3, 50),
     Q(1, 2), Num(1)}
Differences ==
    {Num(-1), Q(-1, 10), Q(-1, 1000), Num(0), Q(1, 1000), Q(1, 10), Num(1)}

\* line 39
ReportFlag(p_value) == IF Lt(p_value, ReportAlpha) THEN "yes" ELSE "no"

\* lines 51-53
ReportAdvice(p_value, difference) ==
    IF Lt(p_value, ReportAlpha) /\ Lt(Num(0), difference) THEN "recommend" ELSE "keep"

\* line 118
ConsoleFlag(p_value) == IF Lt(p_value, ReportAlpha) THEN "yes" ELSE "no"

\* mutant: the sign of the difference is not looked at
ConsoleAdviceAnySign(p_value, difference) ==
    IF Lt(p_value, ReportAlpha) THEN "recommend" ELSE "keep"

\* lines 122-125
ConsoleAdvice(p_value, difference) ==
    IF Lt(p_value, ReportAlpha) /\ Lt(Num(0), difference) THEN "recommend" ELSE "keep"

\* lines 20-61 (called at line 103)
GenerateReport(p_value, difference) ==
    /\ report.pc = "start"
    /\ report' = [report EXCEPT !.pc = "reported", !.p_value = p_value,
                                !.difference = difference,
                                !.flag = ReportFlag(p_value),
                                !.advice = ReportAdvice(p_value, difference)]
    /\ UNCHANGED <<engineVars, runner, cleaned>>

CallReport ==
    /\ report.pc = "start"
    /\ \E p_value \in PValues, difference \in Differences :
           GenerateReport(p_value, difference)

\* lines 110-125
PrintSummary ==
    /\ report.pc = "reported"
    /\ report' = [report EXCEPT !.pc = "printed",
                                !.console_flag = ConsoleFlag(report.p_value),
                                !.console_advice =
                                    ConsoleAdvice(report.p_value, report.difference)]
    /\ UNCHANGED <<engineVars, runner, cleaned>>

NextReport ==
    \/ CallReport
    \/ PrintSummary

SpecReport == Init /\ [][NextReport]_vars

\* the bundle's p-value is below 0.05, its difference above 0 (both are finite)
Below05 == report.p_value.n * 20 < report.p_value.d
PositiveDifference == report.difference.n > 0

\* C13: the report and the console summary give the same verdict: both
\* recommend exactly when p_value < 0.05 and difference > 0, both say to keep
\* the old variant otherwise; the significance flag is "yes" exactly when
\* p_value < 0.05.
C13_SameVerdict ==
    /\ report.pc \in {"reported", "printed"} =>
           /\ report.flag = "yes" <=> Below05
           /\ report.flag = "no" <=> ~Below05
           /\ report.advice = "recommend" <=> (Below05 /\ PositiveDifference)
           /\ report.advice = "keep" <=> ~(Below05 /\ PositiveDifference)
    /\ report.pc = "printed" =>
           /\ report.console_flag = report.flag
           /\ report.console_advice = report.advice

\* both texts are out for a significant negative difference, neither recommends
C13_Witness ==
    /\ report.pc = "printed"
    /\ report.p_value = Q(1, 25)
    /\ report.difference = Q(-1, 10)
    /\ report.flag = "yes"
    /\ report.console_advice = "keep"

(***************************************************************************)
(* Project-User-Behavior-Analysis, data_cleaner.py: clean_data.  A table   *)
(* is the sequence of its rows; a row carries its index label and its      *)
(* columns (the user and the read_time stand for all of them).  A missing  *)
(* read_time is NaN.                                                       *)
(***************************************************************************)
MaxRows == 3
Users == {"u1", "u2"}
ReadTimes == {Num(-1), Num(0), Num(1), NaN}

\* the columns of a row, without its index label
Cols(r) == <<r.user, r.read_time>>

\* lines 6-11: the tables read_csv gives, labelled 0, 1, ... in file order
RawTables ==
    UNION {{[i \in 1..n |-> [index |-> i - 1, user |-> c[i][1], read_time |-> c[i][2]]] :
                c \in [1..n -> Users \X ReadTimes]} : n \in 0..MaxRows}

\* the rows of t at the positions in keep, in the order of t, labels kept
Take(t, keep) ==
    LET F[k \in 0..Len(t)] ==
            IF k = 0 THEN <<>>
            ELSE IF k \in keep THEN Append(F[k - 1], t[k]) ELSE F[k - 1]
    IN  F[Len(t)]

\* line 20: DataFrame.drop_duplicates keeps the first of the rows with equal
\* columns (two missing values count as equal)
DropDuplicates(t) ==
    Take(t, {i \in 1..Len(t) : \A j \in 1..(i - 1) : Cols(t[j]) # Cols(t[i])})

\* mutant: rows with read_time 0 stay
NonNegativeReadTime(t) == Take(t, {i \in 1..Len(t) : Le(Num(0), t[i].read_time)})

\* line 24: the rows whose read_time > 0 (a comparison with NaN is False)
PositiveReadTime(t) == Take(t, {i \in 1..Len(t) : Lt(Num(0), t[i].read_time)})

\* lines 13-27; line 16 copies the argument, the steps after it make new tables
CleanData(t) == PositiveReadTime(DropDuplicates(t))

\* line 53: clean_data(df_raw)
Clean(t) ==
    /\ ~cleaned.called
    /\ cleaned' = [called |-> TRUE, arg |-> t, arg_after |-> t, out |-> CleanData(t),
                   twice |-> FALSE, again |-> <<>>]
    /\ UNCHANGED <<engineVars, runner, report>>

CallClean ==
    /\ ~cleaned.called
    /\ \E t \in RawTables : Clean(t)

\* clean_data applied to the table it returned
CleanAgain ==
    /\ cleaned.called
    /\ ~cleaned.twice
    /\ cleaned' = [cleaned EXCEPT !.twice = TRUE, !.again = CleanData(cleaned.out)]
    /\ UNCHANGED <<engineVars, runner, report>>

NextClean ==
    \/ CallClean
    \/ CleanAgain

SpecClean == Init /\ [][NextClean]_vars

\* C14: clean_data returns a table with no two identical rows and read_time > 0
\* in every row; every returned row is a row of the input, in input order and
\* unaltered; the caller's table is not modified; cleaning the returned table
\* again returns it unchanged.
C14_CleanData ==
    cleaned.called =>
        /\ \A i, j \in 1..Len(cleaned.out) :
               i < j => Cols(cleaned.out[i]) # Cols(cleaned.out[j])
        /\ \A i \in 1..Len(cleaned.out) :
               /\ cleaned.out[i].read_time.k = "fin"
               /\ cleaned.out[i].read_time.n > 0
        /\ \A i \in 1..Len(cleaned.out) :
               /\ cleaned.out[i].index + 1 \in 1..Len(cleaned.arg)
               /\ cleaned.out[i] = cleaned.arg[cleaned.out[i].index + 1]
        /\ \A i, j \in 1..Len(cleaned.out) :
               i < j => cleaned.out[i].index < cleaned.out[j].index
        /\ cleaned.arg_after = cleaned.arg
        /\ cleaned.twice => cleaned.again = cleaned.out

\* a table with a repeated positive row and a row of read_time 0 was cleaned
\* twice: the first of the repeated rows is all that is left
C14_Witness ==
    /\ cleaned.twice
    /\ Len(cleaned.arg) = 3
    /\ Cols(cleaned.arg[1]) = Cols(cleaned.arg[2])
    /\ cleaned.arg[1].read_time = Num(1)
    /\ cleaned.arg[3].read_time = Num(0)
    /\ cleaned.out = <<cleaned.arg[1]>>

====
